---- MODULE Spec2Model ----
(***************************************************************************)
(* The shopping cart of src/script.js (the Cart object, its event          *)
(* handlers and the page bootstrap) as a state machine, with the image     *)
(* fallback of the page and a second page context on the same storage.     *)
(*                                                                         *)
(* JavaScript values are tagged records [t, n, s]: t is the type tag, n    *)
(* the integer part of a number, s the characters of a string (or the      *)
(* fractional digits of a number).  Texts are sequences of one-character   *)
(* strings so that parseInt and String() are computed, not assumed.        *)
(***************************************************************************)
EXTENDS Integers, Sequences, FiniteSets

----------------------------------------------------------------------------
(* Bounds of the model *)

\* longest stored list a session of operations starts from
MaxStored == 2
\* longest stored list of the specifications of init and validate alone
MaxLoad == 3
\* largest quantity an add, a stepper click or an updateQuantity call produces
MaxQty == 2
\* number of img elements of a page
NumImages == 2
\* most load failures of one img element that are answered by a new source
MaxFailures == 3

----------------------------------------------------------------------------
(* JavaScript values *)

Undef == [t |-> "undef", n |-> 0, s |-> <<>>]
Null == [t |-> "null", n |-> 0, s |-> <<>>]
NaN == [t |-> "nan", n |-> 0, s |-> <<>>]
Num(k) == [t |-> "num", n |-> k, s |-> <<>>]
\* a number with a fractional part, k.frac (k >= 0)
Frac(k, frac) == [t |-> "num", n |-> k, s |-> <<".">> \o frac]
Str(chars) == [t |-> "str", n |-> 0, s |-> chars]

\* ToBoolean: what `x && ...`, `x || ...` and `if (x)` test
Truthy(v) ==
    CASE v.t = "num" -> v.n # 0 \/ v.s # <<>>
      [] v.t = "str" -> v.s # <<>>
      [] OTHER -> FALSE

IsInteger(v) == v.t = "num" /\ v.s = <<>>

Digits == <<"0", "1", "2", "3", "4", "5", "6", "7", "8", "9">>

IsDigit(c) == \E i \in 1..10 : Digits[i] = c

DigitVal(c) == CHOOSE i \in 0..9 : Digits[i + 1] = c

RECURSIVE NatToText(_)
NatToText(k) ==
    IF k < 10 THEN <<Digits[k + 1]>>
    ELSE NatToText(k \div 10) \o <<Digits[(k % 10) + 1]>>

\* String(x), also the conversion a template literal and parseInt apply
JsString(v) ==
    CASE v.t = "undef" -> <<"u", "n", "d", "e", "f", "i", "n", "e", "d">>
      [] v.t = "null" -> <<"n", "u", "l", "l">>
      [] v.t = "nan" -> <<"N", "a", "N">>
      [] v.t = "num" ->
           (IF v.n < 0 THEN <<"-">> \o NatToText(-v.n) ELSE NatToText(v.n)) \o v.s
      [] OTHER -> v.s

RECURSIVE SkipSpaces(_)
SkipSpaces(txt) ==
    IF txt # <<>> /\ Head(txt) = " " THEN SkipSpaces(Tail(txt)) ELSE txt

RECURSIVE DigitPrefix(_)
DigitPrefix(txt) ==
    IF txt # <<>> /\ IsDigit(Head(txt))
    THEN <<Head(txt)>> \o DigitPrefix(Tail(txt))
    ELSE <<>>

RECURSIVE TextToNat(_)
TextToNat(ds) ==
    IF ds = <<>> THEN 0
    ELSE 10 * TextToNat(SubSeq(ds, 1, Len(ds) - 1)) + DigitVal(ds[Len(ds)])

\* parseInt(x): the text of x, leading blanks skipped, an optional sign, then
\* the longest run of decimal digits; NaN when there is no digit
parseInt(v) ==
    LET txt == SkipSpaces(JsString(v))
        neg == txt # <<>> /\ Head(txt) = "-"
        body == IF txt # <<>> /\ Head(txt) \in {"-", "+"} THEN Tail(txt) ELSE txt
        ds == DigitPrefix(body)
    IN  IF ds = <<>> THEN NaN
        ELSE Num(IF neg THEN -TextToNat(ds) ELSE TextToNat(ds))

\* x + k for a number k (quantities are numbers or NaN when it is applied)
JsAdd(v, k) == IF IsInteger(v) THEN Num(v.n + k) ELSE NaN

\* x <= 0: false for NaN
LeqZero(v) == v.t = "num" /\ v.n <= 0

\* x < 1: false for NaN
LessThanOne(v) == v.t = "num" /\ v.n < 1

\* a non-negative number as mantissa and scale, m / 10^e; the arithmetic of
\* prices is decimal and exact (the binary rounding of JavaScript numbers is
\* not modelled)
Dec(m, e) == [m |-> m, e |-> e]

RECURSIVE Pow10(_)
Pow10(e) == IF e = 0 THEN 1 ELSE 10 * Pow10(e - 1)

RECURSIVE DecNormal(_)
DecNormal(d) ==
    IF d.e > 0 /\ d.m % 10 = 0 THEN DecNormal(Dec(d.m \div 10, d.e - 1)) ELSE d

RECURSIVE PadZeros(_, _)
PadZeros(txt, width) ==
    IF Len(txt) >= width THEN txt ELSE PadZeros(<<"0">> \o txt, width)

NumToDec(v) ==
    IF v.s = <<>> THEN Dec(v.n, 0)
    ELSE Dec(v.n * Pow10(Len(v.s) - 1) + TextToNat(Tail(v.s)), Len(v.s) - 1)

DecToNum(dec) ==
    LET d == DecNormal(dec)
    IN  IF d.e = 0 THEN Num(d.m)
        ELSE Frac(d.m \div Pow10(d.e),
                  PadZeros(NatToText(d.m % Pow10(d.e)), d.e))

\* a * b for non-negative numbers; NaN when one of them is NaN
JsMul(a, b) ==
    IF a.t = "num" /\ b.t = "num"
    THEN DecToNum(Dec(NumToDec(a).m * NumToDec(b).m, NumToDec(a).e + NumToDec(b).e))
    ELSE NaN

\* a + b for non-negative numbers; NaN when one of them is NaN
JsPlus(a, b) ==
    IF a.t = "num" /\ b.t = "num"
    THEN LET x == NumToDec(a)
             y == NumToDec(b)
             e == IF x.e > y.e THEN x.e ELSE y.e
         IN  DecToNum(Dec(x.m * Pow10(e - x.e) + y.m * Pow10(e - y.e), e))
    ELSE NaN

\* txt.replace(/[^\d.]/g, '')
DigitsAndPoints(txt) ==
    LET Keep(ch) == IsDigit(ch) \/ ch = "."
    IN  SelectSeq(txt, Keep)

\* parseFloat of a text of digits and points: the value of the longest
\* prefix of the form digits[.digits] or .digits, NaN when there is none
parseFloat(txt) ==
    LET int == DigitPrefix(txt)
        rest == SubSeq(txt, Len(int) + 1, Len(txt))
        frac == IF rest # <<>> /\ Head(rest) = "."
                THEN DigitPrefix(Tail(rest)) ELSE <<>>
    IN  IF int = <<>> /\ frac = <<>> THEN NaN
        ELSE DecToNum(Dec(TextToNat(int \o frac), Len(frac)))

----------------------------------------------------------------------------
(* Cart items, stored entries and the 'cart' storage entry *)

\* an object with the fields the cart reads; an absent field is Undef
Item(id, name, price, quantity, image, category) ==
    [t |-> "obj", id |-> id, name |-> name, price |-> price,
     quantity |-> quantity, image |-> image, category |-> category]

\* a list element that is no object (JSON null)
NullEntry ==
    [t |-> "null", id |-> Undef, name |-> Undef, price |-> Undef,
     quantity |-> Undef, image |-> Undef, category |-> Undef]

\* localStorage.getItem('cart'): no entry, the empty text, a text JSON.parse
\* rejects, a JSON text of a value that is no array, or a JSON array
Absent == [kind |-> "absent", list |-> <<>>]
EmptyText == [kind |-> "empty", list |-> <<>>]
Garbage == [kind |-> "garbage", list |-> <<>>]
JsonNonList(kind) == [kind |-> kind, list |-> <<>>]
JsonList(list) == [kind |-> "list", list |-> list]

NonListKinds == {"null", "num", "str", "obj"}

\* JSON.stringify of one value: NaN is written as null; a key whose value is
\* undefined is left out (it reads back as undefined)
JsonValue(v) == IF v.t = "nan" THEN Null ELSE v

JsonEntry(e) ==
    [t |-> e.t, id |-> JsonValue(e.id), name |-> JsonValue(e.name),
     price |-> JsonValue(e.price), quantity |-> JsonValue(e.quantity),
     image |-> JsonValue(e.image), category |-> JsonValue(e.category)]

\* JSON.stringify(this.items)
stringify(list) == JsonList([i \in 1..Len(list) |-> JsonEntry(list[i])])

\* `if (stored)`: null and the empty text are falsy
StoredTruthy(stored) == stored.kind \notin {"absent", "empty"}

\* JSON.parse(stored) throws a SyntaxError
parseThrows(stored) == stored.kind = "garbage"

\* this.items.length / this.items.filter throw a TypeError on null, a number,
\* a string or a plain object
validateThrows(parsed) == parsed.kind # "list"

----------------------------------------------------------------------------
(* Cart.validate *)

\* the filter of step 1
ValidEntry(item) ==
    /\ item.t = "obj"
    /\ Truthy(item.id)
    /\ item.id.t = "str"
    /\ Truthy(item.name)

\* let qty = parseInt(item.quantity); if (isNaN(qty) || qty < 1) qty = 1
NormalQty(item) ==
    LET qty == parseInt(item.quantity)
    IN  IF qty.t = "nan" \/ LessThanOne(qty) THEN Num(1) ELSE qty

\* let priceStr = item.price; if not a string, String(priceStr || '0')
NormalPrice(item) ==
    IF item.price.t = "str" THEN item.price
    ELSE Str(IF Truthy(item.price) THEN JsString(item.price) ELSE <<"0">>)

\* names every object inherits from Object.prototype: uniqueItems[id] is
\* truthy for them although uniqueItems has no such key of its own
ObjectPrototypeKeys ==
    { <<"c", "o", "n", "s", "t", "r", "u", "c", "t", "o", "r">>,
      <<"t", "o", "S", "t", "r", "i", "n", "g">>,
      <<"v", "a", "l", "u", "e", "O", "f">>,
      <<"_", "_", "p", "r", "o", "t", "o", "_", "_">> }

\* position of the own key `id` in uniqueItems (kept in insertion order), or 0
OwnKeyIndex(acc, id) ==
    IF \E i \in 1..Len(acc) : acc[i].id = id
    THEN CHOOSE i \in 1..Len(acc) : acc[i].id = id
    ELSE 0

\* MergeEntry with the quantity of a repeated id dropped instead of added
MergeEntryNoSum(acc, item) ==
    LET k == OwnKeyIndex(acc, item.id)
    IN  IF k # 0 THEN acc
        ELSE IF item.id.s \in ObjectPrototypeKeys
             THEN acc
             ELSE Append(acc, [item EXCEPT !.quantity = NormalQty(item),
                                           !.price = NormalPrice(item)])

\* MergeEntry with the fields of a repeated id taken from the later entry
MergeEntryKeepLast(acc, item) ==
    LET k == OwnKeyIndex(acc, item.id)
    IN  IF k # 0
        THEN [acc EXCEPT ![k] =
                [item EXCEPT !.quantity = JsAdd(acc[k].quantity, NormalQty(item).n),
                             !.price = NormalPrice(item)]]
        ELSE IF item.id.s \in ObjectPrototypeKeys
             THEN acc
             ELSE Append(acc, [item EXCEPT !.quantity = NormalQty(item),
                                           !.price = NormalPrice(item)])

\* one turn of the forEach of step 2
MergeEntry(acc, item) ==
    LET k == OwnKeyIndex(acc, item.id)
    IN  IF k # 0
        THEN [acc EXCEPT ![k].quantity = JsAdd(@, NormalQty(item).n)]
        ELSE IF item.id.s \in ObjectPrototypeKeys
             THEN acc
             ELSE Append(acc, [item EXCEPT !.quantity = NormalQty(item),
                                           !.price = NormalPrice(item)])

RECURSIVE Deduplicate(_, _)
Deduplicate(list, acc) ==
    IF list = <<>> THEN acc
    ELSE Deduplicate(Tail(list), MergeEntry(acc, Head(list)))

\* a key that is a canonical array index: decimal digits without a leading
\* zero (keys of ten digits, up to 2^32 - 2, are beyond the ids of the model)
IsArrayIndex(txt) ==
    /\ txt # <<>>
    /\ \A i \in 1..Len(txt) : IsDigit(txt[i])
    /\ Len(txt) = 1 \/ txt[1] # "0"
    /\ Len(txt) < 10

RECURSIVE InsertByIndex(_, _)
InsertByIndex(sorted, item) ==
    IF sorted = <<>> THEN <<item>>
    ELSE IF TextToNat(item.id.s) < TextToNat(Head(sorted).id.s)
         THEN <<item>> \o sorted
         ELSE <<Head(sorted)>> \o InsertByIndex(Tail(sorted), item)

RECURSIVE SortByIndex(_)
SortByIndex(list) ==
    IF list = <<>> THEN <<>>
    ELSE InsertByIndex(SortByIndex(Tail(list)), Head(list))

IndexKeyed(item) == IsArrayIndex(item.id.s)

OtherKeyed(item) == ~IsArrayIndex(item.id.s)

\* Object.values(uniqueItems): array-index keys in ascending order first,
\* then the other keys in insertion order
ObjectValues(acc) ==
    SortByIndex(SelectSeq(acc, IndexKeyed)) \o SelectSeq(acc, OtherKeyed)

----------------------------------------------------------------------------
(* The Cart's operations.  `c` is the state they read and write:           *)
(*   items           Cart.items                                            *)
(*   storage         the 'cart' entry of localStorage                      *)
(*   badge           textContent and style.display of the .cart-badge      *)
(*                   elements                                              *)
(*   view            what #cartContent shows                               *)
(*   hasCartContent  whether the page has a #cartContent element           *)
(*   exc             the exception that left the running handler, if any   *)
(*   written         whether save has run since the page was loaded        *)
(***************************************************************************)

\* Cart.save
save(c) == [c EXCEPT !.storage = stringify(c.items), !.written = TRUE]

\* sum + (parseInt(item.quantity) || 0)
BadgeQty(item) ==
    LET q == parseInt(item.quantity)
    IN  IF Truthy(q) THEN q.n ELSE 0

RECURSIVE TotalItems(_)
TotalItems(list) ==
    IF list = <<>> THEN 0 ELSE BadgeQty(Head(list)) + TotalItems(Tail(list))

\* Cart.updateBadge
updateBadge(c) ==
    LET totalItems == TotalItems(c.items)
    IN  [c EXCEPT !.badge =
            [textContent |-> JsString(Num(totalItems)),
             display |-> IF totalItems > 0 THEN "inline-block" ELSE "none"]]

\* parseFloat(priceStr.replace(/[^\d.]/g, '')) || 0 of getTotal and render
PriceValue(item) ==
    LET price == parseFloat(DigitsAndPoints(NormalPrice(item).s))
    IN  IF Truthy(price) THEN price ELSE Num(0)

\* item.quantity || 1
QuantityOrOne(item) == IF Truthy(item.quantity) THEN item.quantity ELSE Num(1)

\* this.items.reduce((total, item) => total + price * (item.quantity || 1), total)
RECURSIVE SumLines(_, _)
SumLines(list, total) ==
    IF list = <<>> THEN total
    ELSE SumLines(Tail(list),
                  JsPlus(total, JsMul(PriceValue(Head(list)),
                                      QuantityOrOne(Head(list)))))

\* Cart.getTotal: the value it returns
getTotal(c) == SumLines(c.items, Num(0))

\* the row render writes for one item: data-id, the price text, and the
\* quantity written to data-qty of both stepper buttons and to the input
RenderRow(item) ==
    LET priceStr == NormalPrice(item).s
        q == parseInt(item.quantity)
        quantity == IF Truthy(q) THEN q ELSE Num(1)
    IN  [id |-> JsString(item.id), price |-> priceStr, qty |-> JsString(quantity)]

RECURSIVE GroupThousands(_)
GroupThousands(k) ==
    IF k < 1000 THEN NatToText(k)
    ELSE GroupThousands(k \div 1000) \o <<",">>
            \o PadZeros(NatToText(k % 1000), 3)

\* x.toLocaleString() in the locale en-US: the integer part in groups of
\* three, at most three fractional digits (rounded half up)
toLocaleString(v) ==
    IF v.t # "num" THEN JsString(v)
    ELSE LET d == NumToDec(v)
             r == IF d.e <= 3 THEN d
                  ELSE DecNormal(Dec((d.m + 5 * Pow10(d.e - 4)) \div Pow10(d.e - 3), 3))
             frac == r.m % Pow10(r.e)
         IN  GroupThousands(r.m \div Pow10(r.e))
                \o (IF r.e = 0 THEN <<>>
                    ELSE <<".">> \o PadZeros(NatToText(frac), r.e))

\* the view before any render, and the "Your cart is empty" view; subtotal
\* and total are the texts after "LKR " of the summary rows, empty when the
\* view has no summary
StaticView == [kind |-> "static", rows |-> <<>>, subtotal |-> <<>>, total |-> <<>>]
EmptyCartView ==
    [kind |-> "empty-cart", rows |-> <<>>, subtotal |-> <<>>, total |-> <<>>]

\* Cart.render
render(c) ==
    IF ~c.hasCartContent THEN c
    ELSE IF c.items = <<>> THEN [c EXCEPT !.view = EmptyCartView]
    ELSE [c EXCEPT !.view =
            [kind |-> "cart-items",
             rows |-> [i \in 1..Len(c.items) |-> RenderRow(c.items[i])],
             subtotal |-> toLocaleString(getTotal(c)),
             total |-> toLocaleString(getTotal(c))]]

\* a === b
StrictEq(a, b) == a.t # "nan" /\ a = b

\* this.items.find(item => item.id === productId): its position, or 0
FindIndex(list, productId) ==
    IF \E i \in 1..Len(list) : StrictEq(list[i].id, productId)
    THEN CHOOSE i \in 1..Len(list) :
            /\ StrictEq(list[i].id, productId)
            /\ \A j \in 1..(i - 1) : ~StrictEq(list[j].id, productId)
    ELSE 0

\* validate that saves whether or not the length changed
validateAlwaysSaves(c) ==
    LET filtered == SelectSeq(c.items, ValidEntry)
        uniqueItems == Deduplicate(filtered, <<>>)
    IN  save([c EXCEPT !.items = ObjectValues(uniqueItems)])

\* the validation pass on a list: filter, deduplicate, save when the length
\* changed
validate(c) ==
    LET initialCount == Len(c.items)
        filtered == SelectSeq(c.items, ValidEntry)
        uniqueItems == Deduplicate(filtered, <<>>)
        cleaned == [c EXCEPT !.items = ObjectValues(uniqueItems)]
    IN  IF Len(cleaned.items) # initialCount THEN save(cleaned) ELSE cleaned

\* the body of the try block of Cart.init.  A throw leaves the block with
\* the exception pending (on a TypeError this.items holds the parsed
\* non-array until the handler replaces it)
TryLoad(c) ==
    LET stored == c.storage
    IN  IF parseThrows(stored) THEN [c EXCEPT !.exc = "SyntaxError"]
        ELSE IF validateThrows(stored) THEN [c EXCEPT !.exc = "TypeError"]
        ELSE validate([c EXCEPT !.items = stored.list])

\* no handler: the exception leaves init
CatchRethrows(r) == r

\* catch (e) { console.error(...); this.items = []; }
Catch(r) ==
    IF r.exc # "none" THEN [r EXCEPT !.items = <<>>, !.exc = "none"] ELSE r

\* lines 67-76 of Cart.init
LoadStored(c) ==
    IF StoredTruthy(c.storage) THEN Catch(TryLoad(c)) ELSE c

\* Cart.init (setupEventListeners attaches the handlers modelled below); an
\* exception that left the try/catch unhandled would end init there
init(c) ==
    LET loaded == LoadStored(c)
    IN  IF loaded.exc # "none" THEN loaded ELSE render(updateBadge(loaded))

\* Ensure price is stored as string
CoercePrice(product) ==
    IF Truthy(product.price) /\ product.price.t # "str"
    THEN [product EXCEPT !.price = Str(JsString(product.price))]
    ELSE product

\* AddToItems without the find: every add pushes a new entry
AddToItemsAlwaysPush(list, product) ==
    Append(list, [product EXCEPT !.quantity = Num(1)])

\* AddToItems with `=` for `+=`: an existing item's quantity is set to 1
AddToItemsSetsOne(list, product) ==
    LET k == FindIndex(list, product.id)
    IN  IF k # 0
        THEN [list EXCEPT ![k].quantity = Num(1)]
        ELSE Append(list, [product EXCEPT !.quantity = Num(1)])

\* the find/increment/push of Cart.add
AddToItems(list, product) ==
    LET k == FindIndex(list, product.id)
    IN  IF k # 0
        THEN [list EXCEPT ![k].quantity = JsAdd(@, 1)]
        ELSE Append(list, [product EXCEPT !.quantity = Num(1)])

\* Cart.add
add(c, product) ==
    IF ~Truthy(product.id) THEN c
    ELSE updateBadge(save(
            [c EXCEPT !.items = AddToItems(c.items, CoercePrice(product))]))

\* this.items.filter(item => item.id !== productId)
Without(list, productId) ==
    LET Keep(item) == ~StrictEq(item.id, productId)
    IN  SelectSeq(list, Keep)

\* Cart.remove
remove(c, productId) ==
    render(updateBadge(save([c EXCEPT !.items = Without(c.items, productId)])))

\* updateQuantity that sets the quantity without saving
updateQuantityNoSave(c, productId, quantity) ==
    LET k == FindIndex(c.items, productId)
        newQty == parseInt(quantity)
    IN  updateBadge(
            IF k = 0 THEN c
            ELSE IF LeqZero(newQty) THEN remove(c, productId)
            ELSE render([c EXCEPT !.items[k].quantity = newQty]))

\* updateQuantity with `newQty < 0` for `newQty <= 0`
updateQuantityBelowZero(c, productId, quantity) ==
    LET k == FindIndex(c.items, productId)
        newQty == parseInt(quantity)
    IN  updateBadge(
            IF k = 0 THEN c
            ELSE IF newQty.t = "num" /\ newQty.n < 0 THEN remove(c, productId)
            ELSE render(save([c EXCEPT !.items[k].quantity = newQty])))

\* Cart.updateQuantity
updateQuantity(c, productId, quantity) ==
    LET k == FindIndex(c.items, productId)
        newQty == parseInt(quantity)
    IN  updateBadge(
            IF k = 0 THEN c
            ELSE IF LeqZero(newQty) THEN remove(c, productId)
            ELSE render(save([c EXCEPT !.items[k].quantity = newQty])))

\* Cart.clear
clear(c) == render(updateBadge(save([c EXCEPT !.items = <<>>])))

----------------------------------------------------------------------------
(* The "Add to Cart" click handler of initializeApp *)

LowerCase == <<"a", "b", "c", "d", "e", "f", "g", "h", "i", "j", "k", "l", "m",
               "n", "o", "p", "q", "r", "s", "t", "u", "v", "w", "x", "y", "z">>
UpperCase == <<"A", "B", "C", "D", "E", "F", "G", "H", "I", "J", "K", "L", "M",
               "N", "O", "P", "Q", "R", "S", "T", "U", "V", "W", "X", "Y", "Z">>

\* ch.replace(/[^a-z0-9]/gi, '-').toLowerCase() for one character
SlugChar(ch) ==
    IF IsDigit(ch) \/ \E i \in 1..26 : LowerCase[i] = ch THEN ch
    ELSE IF \E i \in 1..26 : UpperCase[i] = ch
         THEN LowerCase[CHOOSE i \in 1..26 : UpperCase[i] = ch]
         ELSE "-"

\* name.replace(/[^a-z0-9]/gi, '-').toLowerCase()
Slug(name) == [i \in 1..Len(name) |-> SlugChar(name[i])]

\* the product the handler builds from a .product-card: dataId is the text of
\* data-id (empty when the attribute is missing), category the text of the
\* .product-category element ('' when there is none)
CardProduct(card) ==
    Item(Str(IF card.dataId # <<>> THEN card.dataId ELSE Slug(card.name)),
         Str(card.name), Str(card.price), Undef, Str(card.image),
         Str(card.category))

----------------------------------------------------------------------------
(* Image fallback: the document's 'error' listener and the inline onerror  *)
(* of the item images Cart.render writes                                   *)

\* e.target.width || 300, e.target.height || 300
DefaultSize == 300

\* the sources an img element takes: a file of the site, the placeholder
\* service, the generated SVG as a data: URI
FileSrc == [kind |-> "file", text |-> <<>>, width |-> 0, height |-> 0]
PlaceholderSrc ==
    [kind |-> "https://via.placeholder.com/80", text |-> <<>>,
     width |-> 0, height |-> 0]
SvgSrc(text, width, height) ==
    [kind |-> "data:image/svg+xml", text |-> text,
     width |-> width, height |-> height]

\* an img element as the page creates it: inline tells whether it carries
\* the onerror attribute render writes, loading whether a fetch of src is
\* under way, replaced counts the load failures answered by a new source
Img(src, alt, width, height, inline) ==
    [src |-> src, alt |-> alt, width |-> width, height |-> height,
     fixed |-> Undef, inline |-> inline, loading |-> TRUE, replaced |-> 0]

\* img.src = src: the source is fetched, also when it equals the old one
SetSrc(img, src) == [img EXCEPT !.src = src, !.loading = TRUE]

\* the capturing 'error' listener of the document, for an img target
ErrorListener(img) ==
    IF Truthy(img.fixed) THEN img
    ELSE LET text == IF img.alt # <<>> THEN img.alt
                     ELSE <<"P", "r", "o", "d", "u", "c", "t">>
             width == IF img.width # 0 THEN img.width ELSE DefaultSize
             height == IF img.height # 0 THEN img.height ELSE DefaultSize
         IN  SetSrc([img EXCEPT !.fixed = Str(<<"t", "r", "u", "e">>)],
                    SvgSrc(text, width, height))

\* onerror="this.src='https://via.placeholder.com/80'"
InlineOnError(img) == IF img.inline THEN SetSrc(img, PlaceholderSrc) ELSE img

\* the error event of a failed load: the document's capturing listener runs
\* first, then the handler of the element
DispatchError(img) ==
    LET handled == InlineOnError(ErrorListener([img EXCEPT !.loading = FALSE]))
    IN  [handled EXCEPT !.replaced = IF handled.loading THEN @ + 1 ELSE @]

----------------------------------------------------------------------------
(* The inputs of the model *)

IdA == <<"a">>
Id1 == <<"1">>
IdConstructor == <<"c", "o", "n", "s", "t", "r", "u", "c", "t", "o", "r">>
PriceText == <<"$", "1", "0", ".", "5", "0">>

\* the product cards of the page: one with data-id, one whose id is the slug
\* of its name, one with neither
Cards ==
    { [dataId |-> IdA, name |-> <<"N">>, price |-> PriceText,
       image |-> <<"i">>, category |-> <<"T">>],
      [dataId |-> <<>>, name |-> <<"1">>, price |-> <<"5">>,
       image |-> <<"j">>, category |-> <<>>],
      [dataId |-> <<>>, name |-> <<>>, price |-> <<"5">>,
       image |-> <<"j">>, category |-> <<>>] }

\* products another script of the page passes to Cart.add: one with a
\* numeric price, one with the price 0
Products ==
    { Item(Str(Id1), Str(<<"1">>), Num(5), Undef, Str(<<"j">>), Str(<<>>)),
      Item(Str(IdA), Str(<<"N">>), Num(0), Undef, Str(<<"i">>), Str(<<"T">>)) }

\* what a stored list holds: well-formed entries, entries of one id that
\* differ in their other fields, quantities that are fractional, missing,
\* non-numeric or below 1, prices that are numbers or missing, and entries
\* the filter drops
StoredEntries ==
    { Item(Str(IdA), Str(<<"N">>), Str(PriceText), Num(2), Str(<<"i">>), Str(<<"T">>)),
      Item(Str(IdA), Str(<<"M">>), Num(5), Num(3), Str(<<"j">>), Undef),
      Item(Str(IdA), Str(<<"N">>), Str(PriceText), Num(0), Str(<<"i">>), Str(<<"T">>)),
      Item(Str(Id1), Str(<<"1">>), Str(<<"5">>), Frac(2, <<"5">>), Str(<<"j">>), Str(<<>>)),
      Item(Str(Id1), Str(<<"1">>), Str(<<"5">>), Str(<<"x">>), Str(<<"j">>), Str(<<>>)),
      Item(Str(Id1), Str(<<"1">>), Undef, Undef, Str(<<"j">>), Str(<<>>)),
      Item(Str(IdConstructor), Str(<<"N">>), Str(<<"5">>), Num(1), Undef, Undef),
      Item(Num(7), Str(<<"N">>), Str(<<"5">>), Num(1), Undef, Undef),
      Item(Str(IdA), Undef, Str(<<"5">>), Num(1), Undef, Undef),
      Item(Undef, Str(<<"N">>), Str(<<"5">>), Num(1), Undef, Undef),
      NullEntry }

RECURSIVE ListsUpTo(_, _)
ListsUpTo(S, k) ==
    IF k = 0 THEN {<<>>}
    ELSE LET shorter == ListsUpTo(S, k - 1)
         IN  shorter \cup { Append(l, e) : l \in shorter, e \in S }

\* every content of the 'cart' entry with a list of at most k entries
StoredContents(k) ==
    {Absent, EmptyText, Garbage}
    \cup { JsonNonList(kind) : kind \in NonListKinds }
    \cup { JsonList(l) : l \in ListsUpTo(StoredEntries, k) }

\* ids and quantities of direct calls of remove and updateQuantity
Ids == {Str(IdA), Str(Id1)}
Quantities == { Num(k) : k \in -1..MaxQty }

\* what a user leaves in a quantity input
InputTexts == {<<>>, <<"0">>, <<"2">>}

\* the img elements of a page: images of the static page with and without
\* alt text and size, and item images of the cart view, whose source is
\* item.image or the placeholder
PageImages ==
    { Img(FileSrc, <<>>, 0, 0, FALSE),
      Img(FileSrc, <<"N">>, 80, 80, FALSE),
      Img(FileSrc, <<"N">>, 80, 80, TRUE),
      Img(PlaceholderSrc, <<"N">>, 0, 0, TRUE) }

RupeeText == <<"R", "s", ".", " ", "1", "5">>

\* stored entries by their price text: a currency sign before the amount, a
\* bare amount, a currency abbreviation before the amount, no amount
PricedEntries ==
    { Item(Str(IdA), Str(<<"N">>), Str(PriceText), Num(2), Str(<<"i">>), Str(<<"T">>)),
      Item(Str(Id1), Str(<<"1">>), Str(<<"5">>), Undef, Str(<<"j">>), Str(<<>>)),
      Item(Str(IdA), Str(<<"N">>), Str(RupeeText), Num(1), Str(<<"i">>), Str(<<"T">>)),
      Item(Str(Id1), Str(<<"1">>), Str(<<"x">>), Num(2), Str(<<"j">>), Str(<<>>)) }

----------------------------------------------------------------------------
(* The state machine *)

VARIABLES items, storage, badge, view, hasCartContent, exc, written, pc, last,
          ret, images, peer, ledger

vars ==
    <<items, storage, badge, view, hasCartContent, exc, written, pc, last, ret,
      images, peer, ledger>>

\* ret is the value the last call returned, images the img elements of the
\* page that are followed
\* peer is the Cart of a second page context (tab) open on the same 'cart'
\* entry, with the position of that page; ledger is the item list one Cart
\* holds that has run every completed add, remove, updateQuantity and clear
\* of the two contexts in the order of their completion

\* the second context while no second tab is open
Unopened ==
    [items |-> <<>>, badge |-> [textContent |-> <<>>, display |-> ""],
     view |-> [kind |-> "static", rows |-> <<>>, subtotal |-> <<>>, total |-> <<>>],
     hasCartContent |-> FALSE, exc |-> "none", written |-> FALSE,
     pc |-> "closed"]

StaticBadge == [textContent |-> <<>>, display |-> ""]

Cur ==
    [items |-> items, storage |-> storage, badge |-> badge, view |-> view,
     hasCartContent |-> hasCartContent, exc |-> exc, written |-> written]

\* the state an operation leaves; init, validate, add, remove, updateQuantity
\* and clear return undefined
Becomes(c) ==
    /\ items' = c.items
    /\ storage' = c.storage
    /\ badge' = c.badge
    /\ view' = c.view
    /\ hasCartContent' = c.hasCartContent
    /\ exc' = c.exc
    /\ written' = c.written
    /\ ret' = Undef
    /\ UNCHANGED <<images, peer, ledger>>

\* a freshly loaded page: const Cart = { items: [], ... } over the storage
\* the browser kept
Fresh(stored, page) ==
    [items |-> <<>>, storage |-> stored, badge |-> StaticBadge,
     view |-> StaticView, hasCartContent |-> page, exc |-> "none",
     written |-> FALSE]

\* the operation that ran last: id = the id it was called with (Undef when it
\* takes none), found = whether its find returned an item, stored = the entry
\* the first init of the session read
Last(op, id, found, stored) ==
    [op |-> op, id |-> id, found |-> found, stored |-> stored]

\* the page as served, before DOMContentLoaded, over a stored list of at most
\* k entries
InitWith(k) ==
    /\ storage \in StoredContents(k)
    /\ hasCartContent \in BOOLEAN
    /\ items = <<>>
    /\ badge = StaticBadge
    /\ view = StaticView
    /\ exc = "none"
    /\ written = FALSE
    /\ pc = "constructed"
    /\ last = Last("none", Undef, FALSE, Absent)
    /\ ret = Undef
    /\ images = <<>>
    /\ peer = Unopened
    /\ ledger = <<>>

Init == InitWith(MaxStored)

\* the DOMContentLoaded listener initializeApp: Cart.init()
DOMContentLoaded ==
    /\ pc = "constructed"
    /\ Becomes(init(Cur))
    /\ pc' = "ready"
    /\ last' = Last("init", Undef, FALSE, storage)

\* the user reloads or opens a page of the site: a new Cart over the same
\* storage, initialized by initializeApp
Reload ==
    /\ pc = "ready"
    /\ \E page \in BOOLEAN : Becomes(init(Fresh(storage, page)))
    /\ pc' = "ready"
    /\ last' = Last("reload", Undef, FALSE, Absent)

CallAdd(product) ==
    /\ pc = "ready"
    /\ LET k == FindIndex(items, product.id)
       IN  k # 0 /\ IsInteger(items[k].quantity) => items[k].quantity.n < MaxQty
    /\ Becomes(add(Cur, product))
    /\ last' = Last("add", product.id, FindIndex(items, product.id) # 0, Absent)
    /\ UNCHANGED pc

CallRemove(id) ==
    /\ pc = "ready"
    /\ Becomes(remove(Cur, id))
    /\ last' = Last("remove", id, FindIndex(items, id) # 0, Absent)
    /\ UNCHANGED pc

CallUpdateQuantity(id, quantity) ==
    /\ pc = "ready"
    /\ Becomes(updateQuantity(Cur, id, quantity))
    /\ last' = Last("updateQuantity", id, FindIndex(items, id) # 0, Absent)
    /\ UNCHANGED pc

CallClear ==
    /\ pc = "ready"
    /\ Becomes(clear(Cur))
    /\ last' = Last("clear", Undef, FALSE, Absent)
    /\ UNCHANGED pc

\* click on a .btn-cart button of a product card
ClickAddToCart == \E card \in Cards : CallAdd(CardProduct(card))

\* a script of the page calls Cart.add
Add == \E product \in Products : CallAdd(product)

\* a script of the page calls Cart.remove
Remove == \E id \in Ids : CallRemove(id)

\* a script of the page calls Cart.updateQuantity
UpdateQuantity == \E id \in Ids, q \in Quantities : CallUpdateQuantity(id, q)

\* a script of the page calls Cart.clear
Clear == CallClear

\* click on the .remove-btn of a rendered row
ClickRemove ==
    /\ hasCartContent
    /\ \E i \in 1..Len(view.rows) :
          /\ view.rows[i].id # <<>>
          /\ CallRemove(Str(view.rows[i].id))

\* click on a .qty-btn of a rendered row
ClickQtyBtn ==
    /\ hasCartContent
    /\ \E i \in 1..Len(view.rows), step \in {-1, 1} :
          LET currentQty == parseInt(Str(view.rows[i].qty))
          IN  /\ view.rows[i].id # <<>>
              /\ step = 1 => currentQty.n < MaxQty
              /\ CallUpdateQuantity(Str(view.rows[i].id), JsAdd(currentQty, step))

\* change of the .qty-input of a rendered row
ChangeQtyInput ==
    /\ hasCartContent
    /\ \E i \in 1..Len(view.rows), txt \in InputTexts :
          /\ view.rows[i].id # <<>>
          /\ CallUpdateQuantity(Str(view.rows[i].id), parseInt(Str(txt)))

Next ==
    \/ DOMContentLoaded
    \/ Reload
    \/ ClickAddToCart
    \/ Add
    \/ Remove
    \/ UpdateQuantity
    \/ Clear
    \/ ClickRemove
    \/ ClickQtyBtn
    \/ ChangeQtyInput

\* sessions of operations over a stored list of at most MaxStored entries
Spec == Init /\ [][Next]_vars


\* Cart.init alone, over a stored list of at most MaxLoad entries
InitLoad == InitWith(MaxLoad)

NextLoad == DOMContentLoaded

SpecLoad == InitLoad /\ [][NextLoad]_vars

\* Cart.validate alone, run twice on a list: what JSON.parse returned, or a
\* list in memory that holds an item whose quantity is NaN and whose price
\* is the number 0
ValidateInputs ==
    StoredEntries \cup
    { Item(Str(IdA), Str(<<"N">>), Num(0), NaN, Str(<<"i">>), Str(<<"T">>)) }

InitValidate ==
    /\ items \in ListsUpTo(ValidateInputs, MaxLoad)
    /\ storage = stringify(items)
    /\ hasCartContent = FALSE
    /\ badge = StaticBadge
    /\ view = StaticView
    /\ exc = "none"
    /\ written = FALSE
    /\ pc = "parsed"
    /\ last = Last("none", Undef, FALSE, JsonList(items))
    /\ ret = Undef
    /\ images = <<>>
    /\ peer = Unopened
    /\ ledger = <<>>

\* this.validate()
Validate ==
    /\ pc = "parsed"
    /\ Becomes(validate(Cur))
    /\ pc' = "validated"
    /\ UNCHANGED last

\* this.validate() once more, directly after; `written` then tells whether
\* this second run saved
Revalidate ==
    /\ pc = "validated"
    /\ Becomes(validate([Cur EXCEPT !.written = FALSE]))
    /\ pc' = "revalidated"
    /\ UNCHANGED last

NextValidate == Validate \/ Revalidate

SpecValidate == InitValidate /\ [][NextValidate]_vars

\* sessions that read the total: the page as served over a stored list of
\* priced entries, init, adds, changes of a quantity input, and calls of
\* Cart.getTotal
InitTotal ==
    /\ storage \in { JsonList(l) : l \in ListsUpTo(PricedEntries, MaxStored) }
    /\ hasCartContent \in BOOLEAN
    /\ items = <<>>
    /\ badge = StaticBadge
    /\ view = StaticView
    /\ exc = "none"
    /\ written = FALSE
    /\ pc = "constructed"
    /\ last = Last("none", Undef, FALSE, Absent)
    /\ ret = Undef
    /\ images = <<>>
    /\ peer = Unopened
    /\ ledger = <<>>

\* a script of the page calls Cart.getTotal
GetTotal ==
    /\ pc = "ready"
    /\ ret' = getTotal(Cur)
    /\ last' = Last("getTotal", Undef, FALSE, Absent)
    /\ UNCHANGED <<items, storage, badge, view, hasCartContent, exc, written, pc,
                   images, peer, ledger>>

NextTotal ==
    \/ DOMContentLoaded
    \/ ClickAddToCart
    \/ Add
    \/ ChangeQtyInput
    \/ GetTotal

SpecTotal == InitTotal /\ [][NextTotal]_vars

\* the img elements of a page and the outcomes of their loads
InitImage ==
    /\ images \in [1..NumImages -> PageImages]
    /\ items = <<>>
    /\ storage = Absent
    /\ hasCartContent = TRUE
    /\ badge = StaticBadge
    /\ view = StaticView
    /\ exc = "none"
    /\ written = FALSE
    /\ pc = "ready"
    /\ last = Last("none", Undef, FALSE, Absent)
    /\ ret = Undef
    /\ peer = Unopened
    /\ ledger = <<>>

\* the fetch of an image's source succeeds
LoadSucceeds ==
    /\ \E i \in 1..NumImages :
          /\ images[i].loading
          /\ images' = [images EXCEPT ![i].loading = FALSE]
    /\ UNCHANGED <<items, storage, badge, view, hasCartContent, exc, written, pc,
                   last, ret, peer, ledger>>

\* the fetch of an image's source fails: an error event is fired at it
LoadFails ==
    /\ \E i \in 1..NumImages :
          /\ images[i].loading
          /\ images[i].replaced < MaxFailures
          /\ images' = [images EXCEPT ![i] = DispatchError(@)]
    /\ UNCHANGED <<items, storage, badge, view, hasCartContent, exc, written, pc,
                   last, ret, peer, ledger>>

NextImage == LoadSucceeds \/ LoadFails

SpecImage == InitImage /\ [][NextImage]_vars

\* what the 'cart' entry holds when two tabs are opened
TabStored ==
    { Absent,
      JsonList(<<Item(Str(IdA), Str(<<"N">>), Str(PriceText), Num(1),
                      Str(<<"i">>), Str(<<"T">>))>>) }

\* the Cart of context t (1: this page, 2: the peer) over the shared entry
CartOf(t) ==
    IF t = 1 THEN Cur
    ELSE [items |-> peer.items, storage |-> storage, badge |-> peer.badge,
          view |-> peer.view, hasCartContent |-> peer.hasCartContent,
          exc |-> peer.exc, written |-> peer.written]

PcOf(t) == IF t = 1 THEN pc ELSE peer.pc

\* an operation of context t leaves its Cart and the shared entry as c
TabBecomes(t, c, position) ==
    /\ storage' = c.storage
    /\ IF t = 1
       THEN /\ items' = c.items
            /\ badge' = c.badge
            /\ view' = c.view
            /\ hasCartContent' = c.hasCartContent
            /\ exc' = c.exc
            /\ written' = c.written
            /\ pc' = position
            /\ peer' = peer
       ELSE /\ peer' = [items |-> c.items, badge |-> c.badge, view |-> c.view,
                        hasCartContent |-> c.hasCartContent, exc |-> c.exc,
                        written |-> c.written, pc |-> position]
            /\ UNCHANGED <<items, badge, view, hasCartContent, exc, written, pc>>
    /\ ret' = Undef
    /\ UNCHANGED <<images, last>>

\* the one Cart that runs the operations of both contexts
Reference == [Fresh(storage, FALSE) EXCEPT !.items = ledger]

\* two product pages are opened on the same entry, neither initialized yet
InitTabs ==
    /\ storage \in TabStored
    /\ items = <<>>
    /\ badge = StaticBadge
    /\ view = StaticView
    /\ hasCartContent = FALSE
    /\ exc = "none"
    /\ written = FALSE
    /\ pc = "constructed"
    /\ last = Last("none", Undef, FALSE, Absent)
    /\ ret = Undef
    /\ images = <<>>
    /\ peer = [Unopened EXCEPT !.pc = "constructed"]
    /\ ledger = init(Fresh(storage, FALSE)).items

\* DOMContentLoaded in context t
TabLoaded(t) ==
    /\ PcOf(t) = "constructed"
    /\ TabBecomes(t, init(CartOf(t)), "ready")
    /\ UNCHANGED ledger

\* click on a .btn-cart button in context t
TabAdd(t) ==
    /\ PcOf(t) = "ready"
    /\ \E card \in Cards :
          LET product == CardProduct(card)
              k == FindIndex(ledger, product.id)
              own == FindIndex(CartOf(t).items, product.id)
          IN  /\ k # 0 => ledger[k].quantity.n < MaxQty
              /\ own # 0 => CartOf(t).items[own].quantity.n < MaxQty
              /\ TabBecomes(t, add(CartOf(t), product), "ready")
              /\ ledger' = add(Reference, product).items

\* Cart.remove is called in context t
TabRemove(t) ==
    /\ PcOf(t) = "ready"
    /\ \E id \in Ids :
          /\ TabBecomes(t, remove(CartOf(t), id), "ready")
          /\ ledger' = remove(Reference, id).items

\* Cart.updateQuantity is called in context t
TabUpdateQuantity(t) ==
    /\ PcOf(t) = "ready"
    /\ \E id \in Ids, q \in Quantities :
          /\ TabBecomes(t, updateQuantity(CartOf(t), id, q), "ready")
          /\ ledger' = updateQuantity(Reference, id, q).items

\* Cart.clear is called in context t
TabClear(t) ==
    /\ PcOf(t) = "ready"
    /\ TabBecomes(t, clear(CartOf(t)), "ready")
    /\ ledger' = clear(Reference).items

NextTabs ==
    \E t \in {1, 2} :
       \/ TabLoaded(t)
       \/ TabAdd(t)
       \/ TabRemove(t)
       \/ TabUpdateQuantity(t)
       \/ TabClear(t)

SpecTabs == InitTabs /\ [][NextTabs]_vars

----------------------------------------------------------------------------
(* Properties *)

Ready == pc = "ready"

IdsOf(list) == { list[i].id : i \in 1..Len(list) }

\* the valid entries of a stored list that carry the id
EntriesOf(list, id) ==
    LET Same(entry) == ValidEntry(entry) /\ entry.id = id
    IN  SelectSeq(list, Same)

\* C1 as claimed: at every operation boundary (init included) the stored
\* value is the serialization of the item list
C1_StorageMirrorsCart == Ready => storage = stringify(items)

\* C1 amended: once save has run in a page session the stored value is the
\* serialization of the item list at every operation boundary; save has run
\* after every remove, clear, add with a truthy id, updateQuantity of an id in
\* the list, and after an init whose normalization changed the number of
\* entries.  (An init that writes nothing leaves the entry as it found it.)
C1_StorageMirrorsCartOnceWritten ==
    /\ written => storage = stringify(items)
    /\ last.op \in {"remove", "clear"} => written
    /\ last.op = "add" /\ Truthy(last.id) => written
    /\ last.op = "updateQuantity" /\ last.found => written
    /\ last.op = "init" /\ last.stored.kind = "list"
          /\ Len(items) # Len(last.stored.list) => written

\* an updateQuantity that left NaN in the list, written to storage as null
C1_Witness ==
    /\ last.op = "updateQuantity"
    /\ last.found
    /\ written
    /\ \E i \in 1..Len(items) :
          items[i].quantity = NaN /\ storage.list[i].quantity = Null

\* C2: the item list holds at most one item per id
C2_OneItemPerId ==
    \A i, j \in 1..Len(items) : items[i].id = items[j].id => i = j

\* an init that merged two valid stored entries of one id into one item
C2_Witness ==
    /\ last.op = "init"
    /\ Len(last.stored.list) = 2
    /\ ValidEntry(last.stored.list[1])
    /\ ValidEntry(last.stored.list[2])
    /\ last.stored.list[1].id = last.stored.list[2].id
    /\ Len(items) = 1

\* C3 as claimed: every item's quantity is an integer >= 1
C3_QuantityPositiveInteger ==
    Ready => \A i \in 1..Len(items) :
                IsInteger(items[i].quantity) /\ items[i].quantity.n >= 1

\* every product add is called with in the model
AllProducts == Products \cup { CardProduct(card) : card \in Cards }

\* the items of a list whose id is not the given one, in order
Others(list, id) ==
    LET Other(item) == item.id # id
    IN  SelectSeq(list, Other)

\* C4: add(product) with a truthy id leaves exactly one item with that id,
\* its quantity the previous quantity plus 1 (JavaScript's +, so NaN stays
\* NaN) if the id was in the list and 1 otherwise, and changes no other item
C4_AddIncrements ==
    [][\A product \in AllProducts :
          CallAdd(product) /\ Truthy(product.id) =>
             /\ Cardinality({ i \in 1..Len(items') : items'[i].id = product.id }) = 1
             /\ \A i \in 1..Len(items') :
                   items'[i].id = product.id =>
                      items'[i].quantity =
                         IF FindIndex(items, product.id) # 0
                         THEN JsAdd(items[FindIndex(items, product.id)].quantity, 1)
                         ELSE Num(1)
             /\ Others(items', product.id) = Others(items, product.id)]_vars

\* a second add of an id: one item with that id, quantity 2
C4_Witness ==
    /\ last.op = "add"
    /\ last.found
    /\ Cardinality({ i \in 1..Len(items) : items[i].id = last.id }) = 1
    /\ \E i \in 1..Len(items) :
          items[i].id = last.id /\ items[i].quantity = Num(2)

\* C5 as claimed: a reload yields the items the list held before it, with
\* the same ids and each item's price string and quantity unchanged
C5_ReloadRoundTrip ==
    [][last'.op = "reload" =>
          /\ IdsOf(items') = IdsOf(items)
          /\ \A i \in 1..Len(items), j \in 1..Len(items') :
                items'[j].id = items[i].id =>
                   /\ items[i].price.t = "str" => items'[j].price = items[i].price
                   /\ items'[j].quantity = items[i].quantity]_vars

NonPositive == { q \in Quantities : q.n <= 0 }

\* what the claim compares: item list, stored value, badge, rendered view
Observed(c) == <<c.items, c.storage, c.badge, c.view>>

\* C6 as claimed: for any id and any q <= 0, updateQuantity(id, q) ends in
\* the state remove(id) ends in
C6_UpdateNonPositiveIsRemove ==
    [][\A id \in Ids, q \in NonPositive :
          CallUpdateQuantity(id, q) =>
             <<items', storage', badge', view'>> = Observed(remove(Cur, id))]_vars

\* C6 amended: the same, for an id that is in the item list
C6_UpdateNonPositiveIsRemoveOfPresent ==
    [][\A id \in Ids, q \in NonPositive :
          CallUpdateQuantity(id, q) /\ FindIndex(items, id) # 0 =>
             <<items', storage', badge', view'>> = Observed(remove(Cur, id))]_vars

\* an updateQuantity that found its item and removed it
C6_Witness ==
    /\ last.op = "updateQuantity"
    /\ last.found
    /\ FindIndex(items, last.id) = 0
    /\ items # <<>>

\* the quantity the claim counts for a stored entry: its integer value,
\* 1 when it is missing, non-numeric or below 1
CountedQty(entry) ==
    LET v == parseInt(entry.quantity)
    IN  IF v.t = "num" /\ v.n >= 1 THEN v.n ELSE 1

RECURSIVE SumCounted(_)
SumCounted(list) ==
    IF list = <<>> THEN 0 ELSE CountedQty(Head(list)) + SumCounted(Tail(list))

InitRead == last.op = "init" /\ last.stored.kind = "list"

\* C7: after init from a stored list each surviving id appears once, with
\* the sum of the counted quantities of all valid stored entries of that id
C7_MergeLaw ==
    InitRead =>
       \A i \in 1..Len(items) :
          /\ \A j \in 1..Len(items) : items[j].id = items[i].id => j = i
          /\ items[i].quantity =
                Num(SumCounted(EntriesOf(last.stored.list, items[i].id)))

\* two stored entries of one id with the quantities 2 and 3, merged into one
\* item of quantity 5
C7_Witness ==
    /\ InitRead
    /\ \E i \in 1..Len(items) :
          LET same == EntriesOf(last.stored.list, items[i].id)
          IN  /\ Len(same) = 2
              /\ same[1].quantity = Num(2)
              /\ same[2].quantity = Num(3)
              /\ items[i].quantity = Num(5)

\* the fields other than quantity of a stored entry, the price as the string
\* normalization makes of it
OtherFields(entry) ==
    <<entry.name, NormalPrice(entry), entry.image, entry.category>>

\* C8 as claimed: a merged item carries the other fields of the last stored
\* entry of its id
C8_KeepsLastSeenFields ==
    InitRead =>
       \A i \in 1..Len(items) :
          LET same == EntriesOf(last.stored.list, items[i].id)
          IN  OtherFields(items[i]) = OtherFields(same[Len(same)])

\* C8 amended: a merged item carries the other fields of the first stored
\* entry of its id
C8_KeepsFirstSeenFields ==
    InitRead =>
       \A i \in 1..Len(items) :
          LET same == EntriesOf(last.stored.list, items[i].id)
          IN  OtherFields(items[i]) = OtherFields(same[1])

\* an init that merged entries of one id whose other fields differ
C8_Witness ==
    /\ InitRead
    /\ \E i \in 1..Len(items) :
          LET same == EntriesOf(last.stored.list, items[i].id)
          IN  /\ Len(same) >= 2
              /\ OtherFields(same[1]) # OtherFields(same[Len(same)])
              /\ OtherFields(items[i]) = OtherFields(same[1])

\* C9: a second run of validate directly after a first leaves the item list
\* as the first run left it and writes nothing to storage
C9_ValidateIdempotent ==
    [][pc = "validated" /\ pc' = "revalidated" =>
          /\ items' = items
          /\ storage' = storage
          /\ ~written']_vars

\* a second run after a first run that dropped or merged entries
C9_Witness ==
    /\ pc = "revalidated"
    /\ items # <<>>
    /\ Len(items) < Len(last.stored.list)

WellFormedItem(item) ==
    /\ item.t = "obj"
    /\ item.id.t = "str" /\ item.id.s # <<>>
    /\ Truthy(item.name)
    /\ IsInteger(item.quantity) /\ item.quantity.n >= 1
    /\ item.price.t = "str"

\* C10: init completes without an exception for every content of the entry,
\* leaves a list of well-formed items, and leaves the empty list when the
\* content is absent or cannot be decoded into a list
C10_InitNeverFails ==
    last.op = "init" =>
       /\ exc = "none"
       /\ pc = "ready"
       /\ \A i \in 1..Len(items) : WellFormedItem(items[i])
       /\ last.stored.kind # "list" => items = <<>>

\* init over a decodable text that is no list
C10_Witness ==
    /\ last.op = "init"
    /\ last.stored.kind \in NonListKinds
    /\ items = <<>>
    /\ exc = "none"

\* C11 as claimed (drop law): after init from a stored list no item lacks an
\* id or a name or has an id that is no string, and every stored entry with
\* a string id and a name has an item under its id
C11_DropLaw ==
    InitRead =>
       /\ \A i \in 1..Len(items) :
             /\ items[i].t = "obj"
             /\ items[i].id.t = "str" /\ Truthy(items[i].id)
             /\ Truthy(items[i].name)
       /\ \A j \in 1..Len(last.stored.list) :
             ValidEntry(last.stored.list[j]) =>
                last.stored.list[j].id \in IdsOf(items)

\* C12 as claimed: at every operation boundary every item's price is a
\* string, in the list and (once the session has saved) in the stored list
C12_PriceIsString ==
    Ready =>
       /\ \A i \in 1..Len(items) : items[i].price.t = "str"
       /\ written => \A i \in 1..Len(storage.list) :
                        storage.list[i].price.t = "str"

\* C13 as claimed: a change of a quantity input to a text that parses to no
\* integer leaves the item list and the stored value unchanged
C13_NonIntegerInputIgnored ==
    [][\A i \in 1..Len(view.rows), txt \in InputTexts :
          /\ hasCartContent
          /\ view.rows[i].id # <<>>
          /\ parseInt(Str(txt)) = NaN
          /\ CallUpdateQuantity(Str(view.rows[i].id), parseInt(Str(txt)))
          => items' = items /\ storage' = storage]_vars

\* the sum of the quantities of a list, as JavaScript adds numbers: NaN as
\* soon as one of them is NaN
RECURSIVE QuantitySum(_)
QuantitySum(list) ==
    IF list = <<>> THEN Num(0)
    ELSE LET rest == QuantitySum(Tail(list))
         IN  IF IsInteger(Head(list).quantity) /\ IsInteger(rest)
             THEN Num(Head(list).quantity.n + rest.n)
             ELSE NaN

\* C14 as claimed: at every operation boundary the count indicators display
\* the sum of the quantities of the items and are visible exactly when that
\* sum is positive
C14_BadgeShowsSum ==
    Ready =>
       /\ badge.textContent = JsString(QuantitySum(items))
       /\ badge.display =
             IF QuantitySum(items).t = "num" /\ QuantitySum(items).n > 0
             THEN "inline-block" ELSE "none"

\* the amount a price stands for: the number its text names, 0 for a text
\* that names none and for a price that is no text
AmountOf(price) ==
    CASE price = Str(PriceText) -> Frac(10, <<"5">>)
      [] price = Str(<<"5">>) -> Num(5)
      [] price = Str(RupeeText) -> Num(15)
      [] OTHER -> Num(0)

\* the sum over the items of amount times quantity, a quantity that is
\* missing or no number counted as 1
RECURSIVE ClaimedTotal(_)
ClaimedTotal(list) ==
    IF list = <<>> THEN Num(0)
    ELSE JsPlus(JsMul(AmountOf(Head(list).price),
                      IF Truthy(Head(list).quantity)
                      THEN Head(list).quantity ELSE Num(1)),
                ClaimedTotal(Tail(list)))

InStep ==
    /\ Len(view.rows) = Len(items)
    /\ \A i \in 1..Len(items) :
          /\ view.rows[i].id = JsString(items[i].id)
          /\ IsInteger(items[i].quantity) =>
                view.rows[i].qty = JsString(items[i].quantity)

\* C16 as claimed: on a page with the cart region the rendered view is in
\* step with the item list after each add, remove, updateQuantity and clear
C16_ViewInStep ==
    hasCartContent /\ last.op \in {"add", "remove", "updateQuantity", "clear"}
       => InStep

\* C17 as claimed: for every img element at most one load failure is
\* answered by a replacement of its source
C17_ReplacedAtMostOnce ==
    \A i \in 1..Len(images) : images[i].replaced <= 1

\* C18 as claimed: with two contexts open on the same entry the stored
\* value, once one of them has saved, is the serialization of the list that
\* holds the effect of every operation completed so far in either context
C18_NoLostOperation ==
    written \/ peer.written => storage = stringify(ledger)

====
